---- MODULE Spec2Model ----
(***************************************************************************)
(* Session/turn persistence of the IKMS multi-agent QA service             *)
(* (src/src/app/services/session_service.py over the SQLite schema of      *)
(* src/src/app/core/database.py).                                          *)
(*                                                                         *)
(* The database is modelled at statement granularity.  Every handler opens *)
(* its own connection (get_db_connection); Python's sqlite3 opens an       *)
(* implicit transaction before the first INSERT/UPDATE/DELETE, SQLite      *)
(* gives that connection the database's single write lock until commit(),  *)
(* and a connection closed without commit() rolls back.  So at most one    *)
(* handler is between its first statement and its commit: cur is that      *)
(* handler, wsessions/wmessages/wseqno is what its connection sees, and    *)
(* sessions/messages/seqno is the committed database every other           *)
(* connection reads.  The wall clock (CURRENT_TIMESTAMP, datetime('now'))  *)
(* may advance between any two statements.                                 *)
(***************************************************************************)
EXTENDS Integers, Sequences, FiniteSets, TLC

VARIABLES
    sessions,   \* committed table sessions: id -> [title, created_at]
    messages,   \* committed table messages, rows in rowid order
    seqno,      \* committed AUTOINCREMENT counter of messages.id
    wsessions,  \* table sessions as seen by the connection holding the write lock
    wmessages,  \* table messages as seen by that connection
    wseqno,     \* AUTOINCREMENT counter as seen by that connection
    cur,        \* the handler that is inside its transaction, or Idle
    now,        \* wall clock
    log,        \* per id: the recordTurn calls committed since its first use
    purged,     \* ids of which a deletion or a sweep has removed something
    resp,       \* what the handler that has just returned handed back, else None
    rows_in,    \* TurnReconstructor: the ordered message sequence given to it
    turns_out,  \* TurnReconstructor: its result
    pipe,       \* PipelineOrchestrator: the run of the answer pipeline
    req         \* conversational_qa: the request being served

vars ==
    <<sessions, messages, seqno, wsessions, wmessages, wseqno, cur, now,
      log, purged, resp, rows_in, turns_out, pipe, req>>

dbvars ==
    <<sessions, messages, seqno>>

wvars ==
    <<wsessions, wmessages, wseqno>>

ghostvars ==
    <<log, purged>>

reconvars ==
    <<rows_in, turns_out>>

sidevars ==
    <<pipe, req>>

----------------------------------------------------------------------------
(* Bounds of the model *)

MaxTime == 1

MaxRows == 4

MaxDays == 1

MaxLen == 3

(* Program constants *)

TitleLen == 50

----------------------------------------------------------------------------
(* Values *)

SessionIds ==
    {"s1", "s2"}

\* Python None / SQL NULL, and a present value.
None ==
    <<>>

Some(x) ==
    <<x>>

\* Strings that the code slices are sequences of characters.
NewChat ==
    <<"N", "e", "w", " ", "C", "h", "a", "t">>

QShort ==
    <<"h", "i">>

QLong ==
    [i \in 1..(TitleLen + 1) |-> IF i <= TitleLen THEN "x" ELSE "y"]

Questions ==
    {NewChat, QShort, QLong}

\* (answer, context) as the pipeline returns them: with and without context
Replies ==
    {[answer |-> <<"a", "1">>, context |-> None],
     [answer |-> <<"a", "2">>, context |-> Some(<<"c">>)]}

Days ==
    0..MaxDays

Min(a, b) ==
    IF a <= b THEN a ELSE b

\* question[:50]
Truncate(s, n) ==
    SubSeq(s, 1, Min(n, Len(s)))

\* A handler call: its name, its position, its arguments, and the clock when
\* its first statement ran.
Call(op, pc, id, q, a, c, days, started) ==
    [op |-> op, pc |-> pc, id |-> id, q |-> q, a |-> a, c |-> c, days |-> days,
     started |-> started]

Idle ==
    Call("idle", 0, "", <<>>, <<>>, None, 0, 0)

\* What a handler hands back when it returns: the call, the history it read
\* (read handlers), and the ids it removed rows of (write handlers).
Returned(call, history, removed) ==
    Some([call |-> call, history |-> history, removed |-> removed])

----------------------------------------------------------------------------
(* The SQL statements, as functions of the tables they read and write *)

\* INSERT OR IGNORE INTO sessions (id, title) VALUES (?, 'New Chat');
\* created_at defaults to CURRENT_TIMESTAMP.
InsertOrIgnoreSession(sess, id, t) ==
    IF id \in DOMAIN sess
    THEN sess
    ELSE sess @@ (id :> [title |-> NewChat, created_at |-> t])

\* UPDATE sessions SET title = question[:50] WHERE id = ? AND title = 'New Chat'
UpdateTitle(sess, id, question) ==
    IF id \in DOMAIN sess /\ sess[id].title = NewChat
    THEN [sess EXCEPT ![id].title = Truncate(question, TitleLen)]
    ELSE sess

\* Variant: the context column is left out of the INSERT.
InsertMessageNoContext(msgs, seq, session_id, role, content, context, t) ==
    Append(msgs, [id |-> seq + 1, session_id |-> session_id, role |-> role,
                  content |-> content, context |-> None, timestamp |-> t])

\* INSERT INTO messages (session_id, role, content[, context]) VALUES (...);
\* id is the next AUTOINCREMENT value, timestamp defaults to CURRENT_TIMESTAMP.
InsertMessage(msgs, seq, session_id, role, content, context, t) ==
    Append(msgs, [id |-> seq + 1, session_id |-> session_id, role |-> role,
                  content |-> content, context |-> context, timestamp |-> t])

\* INSERT INTO sessions (id, title) VALUES (?, 'New Chat')
InsertSession(sess, id, t) ==
    sess @@ (id :> [title |-> NewChat, created_at |-> t])

\* Variant: the messages are left to a cascade the schema does not declare.
DeleteMessagesOfNone(msgs, session_id) ==
    msgs

\* DELETE FROM messages WHERE session_id = ?
DeleteMessagesOf(msgs, session_id) ==
    SelectSeq(msgs, LAMBDA m : m.session_id # session_id)

\* DELETE FROM sessions WHERE id = ?
DeleteSessionRow(sess, id) ==
    [i \in DOMAIN sess \ {id} |-> sess[i]]

\* datetime('now', '-<days> days'), the clock being read when the statement runs
Cutoff(t, days) ==
    t - days

\* SELECT id FROM sessions WHERE created_at < datetime('now', ?)
OldSessionIds(sess, t, days) ==
    {i \in DOMAIN sess : sess[i].created_at < Cutoff(t, days)}

\* DELETE FROM messages WHERE session_id IN (SELECT id FROM sessions WHERE ...)
DeleteOldMessages(msgs, sess, t, days) ==
    SelectSeq(msgs, LAMBDA m : m.session_id \notin OldSessionIds(sess, t, days))

\* DELETE FROM sessions WHERE created_at < datetime('now', ?)
DeleteOldSessions(sess, t, days) ==
    [i \in DOMAIN sess \ OldSessionIds(sess, t, days) |-> sess[i]]

\* Variant: the WHERE clause is missing.
RowsByIdAll(msgs, session_id) ==
    msgs

\* Variant: ORDER BY id DESC.
RowsByIdDesc(msgs, session_id) ==
    LET rows == SelectSeq(msgs, LAMBDA m : m.session_id = session_id)
    IN  [k \in 1..Len(rows) |-> rows[Len(rows) + 1 - k]]

\* SELECT * FROM messages WHERE session_id = ? ORDER BY id ASC
RowsById(msgs, session_id) ==
    SelectSeq(msgs, LAMBDA m : m.session_id = session_id)

\* SELECT * FROM messages WHERE session_id = ? ORDER BY timestamp ASC
\* (the first get_history, shadowed by the alias at the end of the class).
\* SQL leaves the order of rows with equal sort keys open: every order of
\* the session's rows in which the timestamps do not decrease is a result.
RowsByTimestamp(msgs, session_id) ==
    LET rows == SelectSeq(msgs, LAMBDA m : m.session_id = session_id)
        n == Len(rows)
        orders == {p \in [1..n -> 1..n] :
                     /\ \A i, j \in 1..n : i # j => p[i] # p[j]
                     /\ \A k \in 1..(n - 1) :
                          rows[p[k]].timestamp <= rows[p[k + 1]].timestamp}
    IN  {[k \in 1..n |-> rows[p[k]]] : p \in orders}

\* SELECT * FROM sessions: the ids list_sessions returns rows of
ListedIds(sess) ==
    DOMAIN sess

\* The row of id as list_sessions returns it (dict(row)).
SessionDict(sess, id) ==
    [id |-> id, title |-> sess[id].title, created_at |-> sess[id].created_at]

\* Every order of the ids of sess, each id once.
IdOrders(sess) ==
    LET n == Cardinality(DOMAIN sess)
    IN  {p \in [1..n -> DOMAIN sess] : \A i, j \in 1..n : i # j => p[i] # p[j]}

\* Variant: ORDER BY created_at ASC.
list_sessions_asc(sess) ==
    {[k \in 1..Len(p) |-> SessionDict(sess, p[k])] :
        p \in {o \in IdOrders(sess) :
                 \A k \in 1..(Len(o) - 1) :
                    sess[o[k]].created_at <= sess[o[k + 1]].created_at}}

\* SELECT * FROM sessions ORDER BY created_at DESC, as dicts: every order of
\* the rows in which created_at does not increase (equal keys in any order).
list_sessions(sess) ==
    {[k \in 1..Len(p) |-> SessionDict(sess, p[k])] :
        p \in {o \in IdOrders(sess) :
                 \A k \in 1..(Len(o) - 1) :
                    sess[o[k]].created_at >= sess[o[k + 1]].created_at}}

----------------------------------------------------------------------------
(* get_history_formatted: the fold over the rows *)

\* Variant: the pending turn is not cleared after it is emitted.
RECURSIVE ScanKeepsPending(_, _, _, _, _)
ScanKeepsPending(rows, i, history, current_turn, turn_index) ==
    IF i > Len(rows)
    THEN history
    ELSE IF rows[i].role = "user"
    THEN ScanKeepsPending(rows, i + 1, history,
              Some([question |-> rows[i].content,
                    timestamp |-> rows[i].timestamp,
                    turn |-> turn_index]),
              turn_index)
    ELSE IF rows[i].role = "assistant" /\ current_turn # None
    THEN ScanKeepsPending(rows, i + 1,
              Append(history, [question |-> current_turn[1].question,
                               timestamp |-> current_turn[1].timestamp,
                               turn |-> current_turn[1].turn,
                               answer |-> rows[i].content,
                               context |-> rows[i].context]),
              current_turn,
              turn_index + 1)
    ELSE ScanKeepsPending(rows, i + 1, history, current_turn, turn_index)

\* Variant: turn_index is not incremented when a turn is emitted.
RECURSIVE ScanNoIncrement(_, _, _, _, _)
ScanNoIncrement(rows, i, history, current_turn, turn_index) ==
    IF i > Len(rows)
    THEN history
    ELSE IF rows[i].role = "user"
    THEN ScanNoIncrement(rows, i + 1, history,
              Some([question |-> rows[i].content,
                    timestamp |-> rows[i].timestamp,
                    turn |-> turn_index]),
              turn_index)
    ELSE IF rows[i].role = "assistant" /\ current_turn # None
    THEN ScanNoIncrement(rows, i + 1,
              Append(history, [question |-> current_turn[1].question,
                               timestamp |-> current_turn[1].timestamp,
                               turn |-> current_turn[1].turn,
                               answer |-> rows[i].content,
                               context |-> rows[i].context]),
              None,
              turn_index)
    ELSE ScanNoIncrement(rows, i + 1, history, current_turn, turn_index)

RECURSIVE Scan(_, _, _, _, _)
Scan(rows, i, history, current_turn, turn_index) ==
    IF i > Len(rows)
    THEN history
    ELSE IF rows[i].role = "user"
    THEN Scan(rows, i + 1, history,
              Some([question |-> rows[i].content,
                    timestamp |-> rows[i].timestamp,
                    turn |-> turn_index]),
              turn_index)
    ELSE IF rows[i].role = "assistant" /\ current_turn # None
    THEN Scan(rows, i + 1,
              Append(history, [question |-> current_turn[1].question,
                               timestamp |-> current_turn[1].timestamp,
                               turn |-> current_turn[1].turn,
                               answer |-> rows[i].content,
                               context |-> rows[i].context]),
              None,
              turn_index + 1)
    ELSE Scan(rows, i + 1, history, current_turn, turn_index)

Reconstruct(rows) ==
    Scan(rows, 1, <<>>, None, 1)

get_history_formatted(msgs, session_id) ==
    Reconstruct(RowsById(msgs, session_id))

----------------------------------------------------------------------------
(* State after init_db on an empty data directory *)

EmptyTable ==
    [i \in {} |-> [title |-> NewChat, created_at |-> 0]]

\* No pipeline run is in progress.
PipeIdle ==
    [stage |-> "IDLE", question |-> <<>>, history |-> <<>>, context |-> None,
     draft |-> None, final |-> None, ran |-> <<>>, result |-> None]

\* No conversational request is being served.
ReqIdle ==
    [pc |-> "idle", payload_id |-> None, raw |-> <<>>, question |-> <<>>,
     session_id |-> "", history |-> <<>>, answer |-> <<>>, context |-> None,
     calls |-> <<>>, others |-> {}, sessions0 |-> EmptyTable,
     messages0 |-> <<>>,
     status |-> 0, response |-> None]

Init ==
    /\ sessions = EmptyTable
    /\ messages = <<>>
    /\ seqno = 0
    /\ wsessions = EmptyTable
    /\ wmessages = <<>>
    /\ wseqno = 0
    /\ cur = Idle
    /\ now = 0
    /\ log = [i \in SessionIds |-> <<>>]
    /\ purged = {}
    /\ resp = None
    /\ rows_in = <<>>
    /\ turns_out = None
    /\ pipe = PipeIdle
    /\ req = ReqIdle

\* The wall clock advances; nothing stops it between two statements.
Tick ==
    /\ now < MaxTime
    /\ now' = now + 1
    /\ resp' = None
    /\ UNCHANGED <<dbvars, wvars, cur, ghostvars, reconvars, sidevars>>

----------------------------------------------------------------------------
(* add_turn *)

\* statement 1; the implicit BEGIN takes the write lock
AddTurnEnsureSession(id, q, a, c) ==
    /\ cur = Idle
    /\ seqno + 2 <= MaxRows
    /\ wsessions' = InsertOrIgnoreSession(sessions, id, now)
    /\ cur' = Call("add_turn", 2, id, q, a, c, 0, now)
    /\ resp' = None
    /\ UNCHANGED <<dbvars, wmessages, wseqno, now, ghostvars, reconvars, sidevars>>

AddTurnSetTitle ==
    /\ cur.op = "add_turn" /\ cur.pc = 2
    /\ wsessions' = UpdateTitle(wsessions, cur.id, cur.q)
    /\ cur' = [cur EXCEPT !.pc = 3]
    /\ resp' = None
    /\ UNCHANGED <<dbvars, wmessages, wseqno, now, ghostvars, reconvars, sidevars>>

AddTurnUserMessage ==
    /\ cur.op = "add_turn" /\ cur.pc = 3
    /\ wmessages' = InsertMessage(wmessages, wseqno, cur.id, "user", cur.q, None, now)
    /\ wseqno' = wseqno + 1
    /\ cur' = [cur EXCEPT !.pc = 4]
    /\ resp' = None
    /\ UNCHANGED <<dbvars, wsessions, now, ghostvars, reconvars, sidevars>>

AddTurnAssistantMessage ==
    /\ cur.op = "add_turn" /\ cur.pc = 4
    /\ wmessages' = InsertMessage(wmessages, wseqno, cur.id, "assistant", cur.a, cur.c, now)
    /\ wseqno' = wseqno + 1
    /\ cur' = [cur EXCEPT !.pc = 5]
    /\ resp' = None
    /\ UNCHANGED <<dbvars, wsessions, now, ghostvars, reconvars, sidevars>>

----------------------------------------------------------------------------
(* create_session *)

\* ids the database has ever held
Used ==
    DOMAIN sessions \cup {messages[k].session_id : k \in 1..Len(messages)} \cup purged

\* uuid.uuid4(): an id that was never seen before
CreateSessionInsert(id) ==
    /\ cur = Idle
    /\ id \notin Used
    /\ wsessions' = InsertSession(sessions, id, now)
    /\ cur' = Call("create_session", 5, id, <<>>, <<>>, None, 0, now)
    /\ resp' = None
    /\ UNCHANGED <<dbvars, wmessages, wseqno, now, ghostvars, reconvars, sidevars>>

----------------------------------------------------------------------------
(* delete_session *)

DeleteSessionMessages(id) ==
    /\ cur = Idle
    /\ wmessages' = DeleteMessagesOf(messages, id)
    /\ cur' = Call("delete_session", 2, id, <<>>, <<>>, None, 0, now)
    /\ resp' = None
    /\ UNCHANGED <<dbvars, wsessions, wseqno, now, ghostvars, reconvars, sidevars>>

DeleteSessionRowStep ==
    /\ cur.op = "delete_session" /\ cur.pc = 2
    /\ wsessions' = DeleteSessionRow(wsessions, cur.id)
    /\ cur' = [cur EXCEPT !.pc = 5]
    /\ resp' = None
    /\ UNCHANGED <<dbvars, wmessages, wseqno, now, ghostvars, reconvars, sidevars>>

----------------------------------------------------------------------------
(* cleanup_old_sessions *)

CleanupMessages(days) ==
    /\ cur = Idle
    /\ wmessages' = DeleteOldMessages(messages, sessions, now, days)
    /\ cur' = Call("cleanup_old_sessions", 2, "", <<>>, <<>>, None, days, now)
    /\ resp' = None
    /\ UNCHANGED <<dbvars, wsessions, wseqno, now, ghostvars, reconvars, sidevars>>

CleanupSessions ==
    /\ cur.op = "cleanup_old_sessions" /\ cur.pc = 2
    /\ wsessions' = DeleteOldSessions(wsessions, now, cur.days)
    /\ cur' = [cur EXCEPT !.pc = 5]
    /\ resp' = None
    /\ UNCHANGED <<dbvars, wmessages, wseqno, now, ghostvars, reconvars, sidevars>>

----------------------------------------------------------------------------
(* conn.commit(), and a connection closed without it *)

\* ids of which this transaction removes the session row or a message
Removed ==
    {i \in SessionIds :
        \/ i \in DOMAIN sessions /\ i \notin DOMAIN wsessions
        \/ Len(RowsById(wmessages, i)) < Len(RowsById(messages, i))}

Commit ==
    /\ cur.pc = 5
    /\ sessions' = wsessions
    /\ messages' = wmessages
    /\ seqno' = wseqno
    /\ cur' = Idle
    /\ resp' = Returned(cur, <<>>, Removed)
    /\ purged' = purged \cup Removed
    /\ log' = [i \in SessionIds |->
                 IF i \in purged \cup Removed THEN <<>>
                 ELSE IF cur.op = "add_turn" /\ i = cur.id
                 THEN Append(log[i], [question |-> cur.q, answer |-> cur.a,
                                      context |-> cur.c])
                 ELSE log[i]]
    /\ UNCHANGED <<wvars, now, reconvars, sidevars>>

\* Variant: a connection in autocommit mode, every statement is kept.
RollbackKeepsWrites ==
    /\ cur # Idle
    /\ sessions' = wsessions
    /\ messages' = wmessages
    /\ seqno' = wseqno
    /\ cur' = Idle
    /\ resp' = None
    /\ UNCHANGED <<wvars, now, ghostvars, reconvars, sidevars>>

\* An exception or a crash before commit(): close() discards the transaction.
Rollback ==
    /\ cur # Idle
    /\ wsessions' = sessions
    /\ wmessages' = messages
    /\ wseqno' = seqno
    /\ cur' = Idle
    /\ resp' = None
    /\ UNCHANGED <<dbvars, now, ghostvars, reconvars, sidevars>>

----------------------------------------------------------------------------
(* get_history (= get_history_formatted), a read on its own connection *)

GetHistory(id) ==
    /\ cur = Idle
    /\ resp' = Returned(Call("get_history", 0, id, <<>>, <<>>, None, 0, now),
                         get_history_formatted(messages, id), {})
    /\ UNCHANGED <<dbvars, wvars, cur, now, ghostvars, reconvars, sidevars>>

----------------------------------------------------------------------------

Next ==
    \/ Tick
    \/ \E id \in SessionIds, q \in Questions, r \in Replies :
         AddTurnEnsureSession(id, q, r.answer, r.context)
    \/ AddTurnSetTitle
    \/ AddTurnUserMessage
    \/ AddTurnAssistantMessage
    \/ \E id \in SessionIds : CreateSessionInsert(id)
    \/ \E id \in SessionIds : DeleteSessionMessages(id)
    \/ DeleteSessionRowStep
    \/ \E days \in Days : CleanupMessages(days)
    \/ CleanupSessions
    \/ Commit
    \/ Rollback
    \/ \E id \in SessionIds : GetHistory(id)

Spec ==
    Init /\ [][Next]_vars

----------------------------------------------------------------------------
(* The reconstruction on its own: every ordered message sequence of one    *)
(* session up to MaxLen rows, all rows carrying the same timestamp.        *)

RowKinds ==
    {[role |-> "user", content |-> q, context |-> None] : q \in {QShort, NewChat}}
    \cup {[role |-> "assistant", content |-> r.answer, context |-> r.context] :
            r \in Replies}

RowsOfKinds(kinds) ==
    [k \in 1..Len(kinds) |->
        [id |-> k, session_id |-> "s1", role |-> kinds[k].role,
         content |-> kinds[k].content, context |-> kinds[k].context,
         timestamp |-> 0]]

BoundedRows ==
    UNION {{RowsOfKinds(kinds) : kinds \in [1..n -> RowKinds]} : n \in 0..MaxLen}

InitRecon ==
    /\ sessions = EmptyTable
    /\ messages = <<>>
    /\ seqno = 0
    /\ wsessions = EmptyTable
    /\ wmessages = <<>>
    /\ wseqno = 0
    /\ cur = Idle
    /\ now = 0
    /\ log = [i \in SessionIds |-> <<>>]
    /\ purged = {}
    /\ resp = None
    /\ rows_in \in BoundedRows
    /\ turns_out = None
    /\ pipe = PipeIdle
    /\ req = ReqIdle

ReconstructTurns ==
    /\ turns_out = None
    /\ turns_out' = Some(Reconstruct(rows_in))
    /\ UNCHANGED <<dbvars, wvars, cur, now, ghostvars, resp, rows_in, sidevars>>

NextRecon ==
    ReconstructTurns

SpecRecon ==
    InitRecon /\ [][NextRecon]_vars

----------------------------------------------------------------------------
(* PipelineOrchestrator (run_conversational_qa_flow of core/agents/graph.py, *)
(* which conversational_qa calls): one run for one question, as the         *)
(* specification's section 4.6 describes it.  retrieve, draft and verify    *)
(* are external capabilities; each may return any text or raise.            *)

Contexts ==
    {<<"c", "1">>, <<"c", "2">>}

Drafts ==
    {<<"d", "1">>, <<"d", "2">>}

Finals ==
    {<<"a", "1">>, <<"a", "2">>}

\* The histories a run is given: no Turn, or one Turn.
PipeHistories ==
    {<<>>, <<[question |-> QShort, timestamp |-> 0, turn |-> 1,
               answer |-> <<"a", "1">>, context |-> None]>>}

InitPipe ==
    /\ sessions = EmptyTable
    /\ messages = <<>>
    /\ seqno = 0
    /\ wsessions = EmptyTable
    /\ wmessages = <<>>
    /\ wseqno = 0
    /\ cur = Idle
    /\ now = 0
    /\ log = [i \in SessionIds |-> <<>>]
    /\ purged = {}
    /\ resp = None
    /\ rows_in = <<>>
    /\ turns_out = None
    /\ \E q \in Questions, h \in PipeHistories :
          pipe = [PipeIdle EXCEPT !.stage = "INIT", !.question = q,
                                  !.history = h]
    /\ req = ReqIdle

\* Retrieval (INIT -> RETRIEVED): retrieve(question, history) gives the context.
Retrieve(context) ==
    /\ pipe.stage = "INIT"
    /\ pipe' = [pipe EXCEPT !.stage = "RETRIEVED", !.context = Some(context),
                            !.ran = Append(@, "retrieval")]
    /\ UNCHANGED <<dbvars, wvars, cur, now, ghostvars, resp, reconvars, req>>

\* Drafting (RETRIEVED -> DRAFTED): draft(question, context, history).
Draft(draft) ==
    /\ pipe.stage = "RETRIEVED"
    /\ pipe' = [pipe EXCEPT !.stage = "DRAFTED", !.draft = Some(draft),
                            !.ran = Append(@, "drafting")]
    /\ UNCHANGED <<dbvars, wvars, cur, now, ghostvars, resp, reconvars, req>>

\* Verification (DRAFTED -> VERIFIED): verify(draft, context) gives the
\* final answer.
Verify(final) ==
    /\ pipe.stage = "DRAFTED"
    /\ pipe' = [pipe EXCEPT !.stage = "VERIFIED", !.final = Some(final),
                            !.ran = Append(@, "verification")]
    /\ UNCHANGED <<dbvars, wvars, cur, now, ghostvars, resp, reconvars, req>>

\* Done (VERIFIED -> DONE): (final_answer, context) goes to the caller.
Done ==
    /\ pipe.stage = "VERIFIED"
    /\ pipe' = [pipe EXCEPT !.stage = "DONE",
                            !.result = Some([answer |-> pipe.final[1],
                                             context |-> pipe.context[1]])]
    /\ UNCHANGED <<dbvars, wvars, cur, now, ghostvars, resp, reconvars, req>>

\* Variant: a failed stage is run again from the start.
StageFailsRetries ==
    /\ pipe.stage \in {"INIT", "RETRIEVED", "DRAFTED"}
    /\ pipe' = [pipe EXCEPT !.stage = "INIT", !.context = None,
                            !.draft = None,
                            !.ran = Append(@, CASE pipe.stage = "INIT" -> "retrieval"
                                                [] pipe.stage = "RETRIEVED" -> "drafting"
                                                [] OTHER -> "verification")]
    /\ Len(pipe.ran) < 4
    /\ UNCHANGED <<dbvars, wvars, cur, now, ghostvars, resp, reconvars, req>>

\* retrieve, draft or verify raises: the run is aborted, nothing is returned.
StageFails ==
    /\ pipe.stage \in {"INIT", "RETRIEVED", "DRAFTED"}
    /\ pipe' = [pipe EXCEPT !.stage = "FAILED",
                            !.ran = Append(@, CASE pipe.stage = "INIT" -> "retrieval"
                                                [] pipe.stage = "RETRIEVED" -> "drafting"
                                                [] OTHER -> "verification")]
    /\ UNCHANGED <<dbvars, wvars, cur, now, ghostvars, resp, reconvars, req>>

NextPipe ==
    \/ \E context \in Contexts : Retrieve(context)
    \/ \E draft \in Drafts : Draft(draft)
    \/ \E final \in Finals : Verify(final)
    \/ Done
    \/ StageFails

SpecPipe ==
    InitPipe /\ [][NextPipe]_vars

----------------------------------------------------------------------------
(* POST /qa/conversation (conversational_qa of api.py).  The handler calls  *)
(* create_session, get_history, the pipeline, add_turn and get_history in   *)
(* turn; between two of its calls other requests may commit.  Every write    *)
(* here is a whole transaction: writers hold the write lock from their first *)
(* statement to their commit, and readers see committed rows only.          *)

\* Characters str.strip() removes at both ends.
Whitespace ==
    {" ", "\t", "\n"}

RECURSIVE LStrip(_)
LStrip(s) ==
    IF s # <<>> /\ Head(s) \in Whitespace THEN LStrip(Tail(s)) ELSE s

RECURSIVE RStrip(_)
RStrip(s) ==
    IF s # <<>> /\ s[Len(s)] \in Whitespace
    THEN RStrip(SubSeq(s, 1, Len(s) - 1))
    ELSE s

\* Variant: only leading whitespace is removed.
StripLeftOnly(s) ==
    LStrip(s)

\* payload.question.strip()
Strip(s) ==
    RStrip(LStrip(s))

\* payload.question: plain, padded with whitespace, blank, and the sentinel.
RawQuestions ==
    {QShort, <<" ">> \o QShort \o <<" ", "\n">>, <<" ", "\t">>, NewChat}

\* payload.session_id: absent, or an id the client holds.
PayloadIds ==
    {None} \cup {Some(id) : id \in SessionIds}

\* add_turn from its first statement to its commit.
AddTurnTables(sess, msgs, seq, session_id, question, answer, context, t) ==
    [sessions |-> UpdateTitle(InsertOrIgnoreSession(sess, session_id, t),
                              session_id, question),
     messages |-> InsertMessage(
                      InsertMessage(msgs, seq, session_id, "user", question,
                                    None, t),
                      seq + 1, session_id, "assistant", answer, context, t),
     seqno |-> seq + 2]

\* The request is between its first and its last call.
InFlight ==
    req.pc \notin {"idle", "done"}

\* Lines 168-173: strip the question, 400 if nothing is left.
ReqStart(payload_id, raw) ==
    /\ req.pc \in {"idle", "done"}
    /\ req' = [ReqIdle EXCEPT
                 !.pc = IF Strip(raw) = <<>> THEN "done" ELSE "session",
                 !.status = IF Strip(raw) = <<>> THEN 400 ELSE 0,
                 !.payload_id = payload_id,
                 !.raw = raw,
                 !.question = Strip(raw),
                 !.sessions0 = sessions,
                 !.messages0 = messages]
    /\ UNCHANGED <<dbvars, wvars, cur, now, ghostvars, resp, reconvars, pipe>>

\* Lines 175-177 with a session id in the payload.
ReqUseSession ==
    /\ req.pc = "session"
    /\ req.payload_id # None
    /\ req' = [req EXCEPT !.pc = "history", !.session_id = req.payload_id[1]]
    /\ UNCHANGED <<dbvars, wvars, cur, now, ghostvars, resp, reconvars, pipe>>

\* Lines 175-177 without one: create_session() inserts a fresh id and commits.
ReqCreateSession(id) ==
    /\ req.pc = "session"
    /\ req.payload_id = None
    /\ cur = Idle
    /\ id \notin Used
    /\ sessions' = InsertSession(sessions, id, now)
    /\ wsessions' = InsertSession(sessions, id, now)
    /\ req' = [req EXCEPT !.pc = "history", !.session_id = id,
                          !.calls = Append(@, "create_session")]
    /\ UNCHANGED <<messages, seqno, wmessages, wseqno, cur, now, ghostvars,
                   resp, reconvars, pipe>>

\* Line 180: history = SessionService.get_history(session_id)
ReqFetchHistory ==
    /\ req.pc = "history"
    /\ req' = [req EXCEPT !.pc = "pipeline",
                          !.history = get_history_formatted(messages, req.session_id),
                          !.calls = Append(@, "get_history")]
    /\ UNCHANGED <<dbvars, wvars, cur, now, ghostvars, resp, reconvars, pipe>>

\* Lines 183-186: the pipeline returns its result.
ReqPipelineReturns(answer, context) ==
    /\ req.pc = "pipeline"
    /\ req' = [req EXCEPT !.pc = "add_turn", !.answer = answer,
                          !.context = context,
                          !.calls = Append(@, "pipeline")]
    /\ UNCHANGED <<dbvars, wvars, cur, now, ghostvars, resp, reconvars, pipe>>

\* Variant: the handler catches the failure and records an apology as the
\* answer.
ReqPipelineRaisesRecords ==
    /\ req.pc = "pipeline"
    /\ seqno + 2 <= MaxRows
    /\ LET t == AddTurnTables(sessions, messages, seqno, req.session_id,
                              req.question, <<"a", "1">>, None, now)
       IN  /\ sessions' = t.sessions
           /\ messages' = t.messages
           /\ seqno' = t.seqno
           /\ wsessions' = t.sessions
           /\ wmessages' = t.messages
           /\ wseqno' = t.seqno
    /\ req' = [req EXCEPT !.pc = "done", !.status = 500,
                          !.calls = Append(@, "pipeline")]
    /\ UNCHANGED <<cur, now, ghostvars, resp, reconvars, pipe>>

\* Line 183 raises: the exception leaves the handler, and
\* unhandled_exception_handler answers 500 with a fixed body.
ReqPipelineRaises ==
    /\ req.pc = "pipeline"
    /\ req' = [req EXCEPT !.pc = "done", !.status = 500,
                          !.calls = Append(@, "pipeline")]
    /\ UNCHANGED <<dbvars, wvars, cur, now, ghostvars, resp, reconvars, pipe>>

\* Line 189: SessionService.add_turn(session_id, question, answer, context)
ReqAddTurn ==
    /\ req.pc = "add_turn"
    /\ cur = Idle
    /\ seqno + 2 <= MaxRows
    /\ LET t == AddTurnTables(sessions, messages, seqno, req.session_id,
                              req.question, req.answer, req.context, now)
       IN  /\ sessions' = t.sessions
           /\ messages' = t.messages
           /\ seqno' = t.seqno
           /\ wsessions' = t.sessions
           /\ wmessages' = t.messages
           /\ wseqno' = t.seqno
    /\ log' = [log EXCEPT ![req.session_id] =
                 Append(@, [question |-> req.question, answer |-> req.answer,
                            context |-> req.context])]
    /\ req' = [req EXCEPT !.pc = "refetch", !.calls = Append(@, "add_turn")]
    /\ UNCHANGED <<cur, now, purged, resp, reconvars, pipe>>

\* Lines 192-199: updated_history = get_history(session_id), and the response.
ReqRespond ==
    /\ req.pc = "refetch"
    /\ req' = [req EXCEPT
                 !.pc = "done",
                 !.status = 200,
                 !.calls = Append(@, "get_history"),
                 !.response =
                     Some([answer |-> req.answer, context |-> req.context,
                           session_id |-> req.session_id,
                           history |-> get_history_formatted(messages,
                                                             req.session_id)])]
    /\ UNCHANGED <<dbvars, wvars, cur, now, ghostvars, resp, reconvars, pipe>>

\* Another request commits add_turn.
OtherAddTurn(id, q, a, c) ==
    /\ cur = Idle
    /\ seqno + 2 <= MaxRows
    /\ LET t == AddTurnTables(sessions, messages, seqno, id, q, a, c, now)
       IN  /\ sessions' = t.sessions
           /\ messages' = t.messages
           /\ seqno' = t.seqno
           /\ wsessions' = t.sessions
           /\ wmessages' = t.messages
           /\ wseqno' = t.seqno
    /\ log' = [log EXCEPT ![id] = Append(@, [question |-> q, answer |-> a,
                                             context |-> c])]
    /\ req' = IF InFlight THEN [req EXCEPT !.others = @ \cup {id}] ELSE req
    /\ UNCHANGED <<cur, now, purged, resp, reconvars, pipe>>

\* Another request commits delete_session.
OtherDeleteSession(id) ==
    /\ cur = Idle
    /\ id \in Used
    /\ sessions' = DeleteSessionRow(sessions, id)
    /\ messages' = DeleteMessagesOf(messages, id)
    /\ wsessions' = DeleteSessionRow(sessions, id)
    /\ wmessages' = DeleteMessagesOf(messages, id)
    /\ purged' = purged \cup {id}
    /\ log' = [log EXCEPT ![id] = <<>>]
    /\ req' = IF InFlight THEN [req EXCEPT !.others = @ \cup {id}] ELSE req
    /\ UNCHANGED <<seqno, wseqno, cur, now, resp, reconvars, pipe>>

NextReq ==
    \/ \E payload_id \in PayloadIds, raw \in RawQuestions :
         ReqStart(payload_id, raw)
    \/ ReqUseSession
    \/ \E id \in SessionIds : ReqCreateSession(id)
    \/ ReqFetchHistory
    \/ \E r \in Replies : ReqPipelineReturns(r.answer, r.context)
    \/ ReqPipelineRaises
    \/ ReqAddTurn
    \/ ReqRespond
    \/ \E id \in SessionIds, r \in Replies : OtherAddTurn(id, QShort, r.answer, r.context)
    \/ \E id \in SessionIds : OtherDeleteSession(id)

SpecReq ==
    Init /\ [][NextReq]_vars

----------------------------------------------------------------------------
(* Properties *)

\* What getHistory(id) returns on the committed database.
History(id) ==
    get_history_formatted(messages, id)

\* A Turn without its timestamp.
TurnView(t) ==
    [question |-> t.question, answer |-> t.answer, context |-> t.context,
     turn |-> t.turn]

Views(h) ==
    [k \in 1..Len(h) |-> TurnView(h[k])]

\* The Turns a sequence of recordTurn calls should read back as.
ExpectedTurns(calls) ==
    [k \in 1..Len(calls) |->
        [question |-> calls[k].question, answer |-> calls[k].answer,
         context |-> calls[k].context, turn |-> k]]

\* The handler op returns in this step.
Returns(op) ==
    /\ resp' # None
    /\ resp'[1].call.op = op

\* The handler op has just returned.
JustReturned(op) ==
    /\ resp # None
    /\ resp[1].call.op = op

\* C1: round trip.  When recordTurn(id, q, a, c) returns on a session that
\* createSession made and nothing has touched since, getHistory(id) is
\* exactly one Turn, with question q, answer a, context c (absent context
\* included) and turn index 1.
C1_RoundTrip ==
    [][(/\ Returns("add_turn")
        /\ cur.id \in DOMAIN sessions
        /\ log[cur.id] = <<>>
        /\ cur.id \notin purged)
       => Views(get_history_formatted(messages', cur.id))
            = <<[question |-> cur.q, answer |-> cur.a, context |-> cur.c,
                 turn |-> 1]>>]_vars

\* recordTurn with a context has just returned on a session whose row is
\* older than the call (so createSession made it) and that has this one call.
C1_Witness ==
    /\ JustReturned("add_turn")
    /\ resp[1].call.id \notin purged
    /\ resp[1].call.id \in DOMAIN sessions
    /\ sessions[resp[1].call.id].created_at < resp[1].call.started
    /\ Len(log[resp[1].call.id]) = 1
    /\ resp[1].call.c # None
    /\ Len(History(resp[1].call.id)) = 1

\* C2: ordering.  For a session with N committed recordTurn calls and no
\* deletion or sweep of it in between, getHistory returns exactly N Turns,
\* in call order, with turn indexes 1..N -- whatever the timestamps are.
C2_Ordering ==
    \A id \in SessionIds :
        id \notin purged => Views(History(id)) = ExpectedTurns(log[id])

\* Two different turns recorded on one session, all four rows carrying the
\* same timestamp.
C2_Witness ==
    \E id \in SessionIds :
        /\ id \notin purged
        /\ Len(log[id]) = 2
        /\ log[id][1] # log[id][2]
        /\ Len(History(id)) = 2
        /\ \A k \in 1..Len(messages) : messages[k].timestamp = messages[1].timestamp

\* The (user, immediately following assistant) pairs of an ordered row
\* sequence, numbered from 1.
PairTurns(rows) ==
    LET at == SelectSeq([i \in 1..Len(rows) |-> i],
                        LAMBDA i : /\ i < Len(rows)
                                   /\ rows[i].role = "user"
                                   /\ rows[i + 1].role = "assistant")
    IN  [k \in 1..Len(at) |->
            [question |-> rows[at[k]].content,
             timestamp |-> rows[at[k]].timestamp,
             turn |-> k,
             answer |-> rows[at[k] + 1].content,
             context |-> rows[at[k] + 1].context]]

\* C3: orphan handling.  For every ordered message sequence the Turns that
\* reconstruction emits are exactly the (user, immediately following
\* assistant) pairs: a user row followed by another user row, an assistant
\* row with no pending user row, and a trailing user row yield no Turn.
C3_OrphanHandling ==
    turns_out # None => turns_out[1] = PairTurns(rows_in)

\* user, user, assistant has been reconstructed: the first user row is
\* dropped and the second one is paired.
C3_Witness ==
    /\ turns_out # None
    /\ Len(rows_in) = 3
    /\ rows_in[1].role = "user"
    /\ rows_in[2].role = "user"
    /\ rows_in[3].role = "assistant"
    /\ rows_in[1].content # rows_in[2].content
    /\ Len(turns_out[1]) = 1
    /\ turns_out[1][1].question = rows_in[2].content

\* The rows of id in a messages table, whatever reads them.
MessagesOf(msgs, id) ==
    {msgs[k] : k \in {j \in 1..Len(msgs) : msgs[j].session_id = id}}

\* C4: title assignment.  The first recordTurn call on a session sets the
\* title to the first 50 characters of its question; every later recordTurn
\* call on that session leaves the title unchanged, whatever the question.
C4_TitleAssignment ==
    [][(/\ Returns("add_turn")
        /\ cur.id \notin purged)
       => IF log[cur.id] = <<>>
          THEN /\ cur.id \in DOMAIN sessions'
               /\ sessions'[cur.id].title = Truncate(cur.q, TitleLen)
          ELSE /\ cur.id \in DOMAIN sessions'
               /\ sessions'[cur.id].title = sessions[cur.id].title]_vars

\* C5: deletion.  When deleteSession(id) returns, getHistory(id) is empty,
\* listSessions() has no session id, and every other session and its
\* messages are as before.
C5_Deletion ==
    [][Returns("delete_session")
       => /\ get_history_formatted(messages', cur.id) = <<>>
          /\ cur.id \notin ListedIds(sessions')
          /\ \A o \in SessionIds \ {cur.id} :
                /\ o \in DOMAIN sessions' <=> o \in DOMAIN sessions
                /\ o \in DOMAIN sessions => sessions'[o] = sessions[o]
                /\ MessagesOf(messages', o) = MessagesOf(messages, o)
                /\ get_history_formatted(messages', o)
                     = get_history_formatted(messages, o)]_vars

\* deleteSession has just returned after removing rows of its session, and
\* another session with a recorded turn is still there.
C5_Witness ==
    /\ JustReturned("delete_session")
    /\ resp[1].call.id \in resp[1].removed
    /\ resp[1].call.id \notin DOMAIN sessions
    /\ History(resp[1].call.id) = <<>>
    /\ \E o \in DOMAIN sessions : Len(History(o)) >= 1

\* C6: retention.  sweep(days) removes every session whose created_at is
\* older than now minus days together with all its messages, and leaves
\* every other session and its messages untouched -- for some reading "now"
\* of the clock between the sweep's first statement and its return.
C6_Retention ==
    [][Returns("cleanup_old_sessions")
       => \E t \in cur.started..now :
            \A id \in DOMAIN sessions :
                IF sessions[id].created_at < t - cur.days
                THEN /\ id \notin DOMAIN sessions'
                     /\ MessagesOf(messages', id) = {}
                ELSE /\ id \in DOMAIN sessions'
                     /\ sessions'[id] = sessions[id]
                     /\ MessagesOf(messages', id) = MessagesOf(messages, id)]_vars

\* C7: messages never outlive their session.  Every stored message's
\* session_id is the id of an existing session row.
C7_NoOrphanMessages ==
    \A k \in 1..Len(messages) : messages[k].session_id \in DOMAIN sessions

\* C8: ordering parity.  Reconstruction over the timestamp-ordered read gives
\* the same Turns in the same order as reconstruction over the id-ordered
\* read, for every session.
C8_OrderingParity ==
    \A id \in SessionIds :
        \A rows \in RowsByTimestamp(messages, id) :
            Reconstruct(rows) = History(id)

\* C9: create-if-absent.  recordTurn(id, q, a, c) on an id with no session
\* row creates the row, titles it with the first 50 characters of q and
\* appends the user then the assistant message, so that listSessions() has
\* id and getHistory(id) is the single Turn (q, a, c).
C9_CreateIfAbsent ==
    [][(/\ Returns("add_turn")
        /\ cur.id \notin DOMAIN sessions)
       => /\ cur.id \in ListedIds(sessions')
          /\ sessions'[cur.id].title = Truncate(cur.q, TitleLen)
          /\ Len(messages') >= 2
          /\ LET u == messages'[Len(messages') - 1]
                 v == messages'[Len(messages')]
             IN  /\ u.session_id = cur.id /\ u.role = "user"
                 /\ u.content = cur.q
                 /\ v.session_id = cur.id /\ v.role = "assistant"
                 /\ v.content = cur.a /\ v.context = cur.c
          /\ Views(get_history_formatted(messages', cur.id))
               = <<[question |-> cur.q, answer |-> cur.a, context |-> cur.c,
                    turn |-> 1]>>]_vars

\* C10: getHistory on an id with no session row and no message returns the
\* empty sequence and leaves the tables as they are.
C10_UnknownIdHistory ==
    [][(/\ Returns("get_history")
        /\ resp'[1].call.id \notin DOMAIN sessions
        /\ MessagesOf(messages, resp'[1].call.id) = {})
       => /\ resp'[1].history = <<>>
          /\ UNCHANGED dbvars]_vars

\* getHistory has just returned for an id the database does not know while
\* another session has a recorded turn.
C10_Witness ==
    /\ JustReturned("get_history")
    /\ resp[1].call.id \notin DOMAIN sessions
    /\ MessagesOf(messages, resp[1].call.id) = {}
    /\ resp[1].history = <<>>
    /\ \E o \in DOMAIN sessions : Len(History(o)) >= 1

\* C11: deleteSession is idempotent.  deleteSession(id) on an id with no
\* session row changes nothing, and a second deleteSession(id) right after
\* the first leaves the tables as the first left them.
C11_DeleteIdempotent ==
    [][Returns("delete_session")
       => /\ cur.id \notin DOMAIN sessions => UNCHANGED dbvars
          /\ DeleteMessagesOf(messages', cur.id) = messages'
          /\ DeleteSessionRow(sessions', cur.id) = sessions']_vars

\* C12: listSessions returns every existing session exactly once, in an
\* order in which created_at never increases: a session with a later
\* created_at never comes after one with an earlier created_at.
C12_ListOrder ==
    \A r \in list_sessions(sessions) :
        /\ Len(r) = Cardinality(DOMAIN sessions)
        /\ \A id \in DOMAIN sessions :
              Cardinality({k \in 1..Len(r) : r[k].id = id}) = 1
        /\ \A k \in 1..Len(r) :
              /\ r[k].id \in DOMAIN sessions
              /\ r[k].title = sessions[r[k].id].title
              /\ r[k].created_at = sessions[r[k].id].created_at
        /\ \A i, j \in 1..Len(r) :
              i < j => r[i].created_at >= r[j].created_at

\* Two sessions with different created_at are listed, the later one first.
C12_Witness ==
    /\ Cardinality(DOMAIN sessions) = 2
    /\ \E r \in list_sessions(sessions) : r[1].created_at > r[2].created_at

\* C15: the sweep is all-or-nothing per session.  When cleanup_old_sessions
\* returns or fails, no session has lost its row while some of its messages
\* remain, and none has lost messages while its row remains.
C15_SweepAllOrNothing ==
    [][(cur.op = "cleanup_old_sessions" /\ cur' = Idle)
       => \A id \in DOMAIN sessions :
            /\ ~ (/\ id \notin DOMAIN sessions'
                  /\ MessagesOf(messages', id) # {})
            /\ ~ (/\ id \in DOMAIN sessions'
                  /\ MessagesOf(messages', id) # MessagesOf(messages, id))]_vars

\* C16: the title is set at most once.  Once two or more recordTurn calls
\* on a brand-new session have returned, in whatever order they ran, the
\* title has left the sentinel for the first 50 characters of the question
\* of one of those calls, and a title that has left the sentinel is never
\* overwritten.
C16_TitleSetOnce ==
    [][(/\ Returns("add_turn")
        /\ cur.id \notin purged
        /\ Len(log'[cur.id]) >= 2)
       => /\ cur.id \in DOMAIN sessions'
          /\ sessions'[cur.id].title # NewChat
          /\ \E k \in 1..Len(log'[cur.id]) :
                sessions'[cur.id].title
                    = Truncate(log'[cur.id][k].question, TitleLen)
          /\ (/\ cur.id \in DOMAIN sessions
              /\ sessions[cur.id].title # NewChat)
             => sessions'[cur.id].title = sessions[cur.id].title]_vars

\* C17: message pairs never interleave.  In the read order of getHistory
\* the rows of a session are, call by call, the user message of a recordTurn
\* call immediately followed by the assistant message of the same call, with
\* no other row stored between the two -- whatever the timestamps are.
C17_PairsNeverInterleave ==
    \A id \in SessionIds :
        LET rows == RowsById(messages, id)
        IN  /\ Len(rows) % 2 = 0
            /\ \A j \in 1..(Len(rows) \div 2) :
                  /\ rows[2 * j - 1].role = "user"
                  /\ rows[2 * j].role = "assistant"
                  /\ rows[2 * j].id = rows[2 * j - 1].id + 1
            /\ id \notin purged
               => /\ Len(rows) = 2 * Len(log[id])
                  /\ \A j \in 1..Len(log[id]) :
                        /\ rows[2 * j - 1].content = log[id][j].question
                        /\ rows[2 * j].content = log[id][j].answer
                        /\ rows[2 * j].context = log[id][j].context

\* Two recordTurn calls with different answers on one session, all rows
\* carrying the same timestamp.
C17_Witness ==
    \E id \in SessionIds :
        /\ id \notin purged
        /\ Len(log[id]) = 2
        /\ log[id][1].answer # log[id][2].answer
        /\ Len(RowsById(messages, id)) = 4
        /\ \A k \in 1..Len(messages) : messages[k].timestamp = now

\* C18: recordTurn is atomic with respect to failure.  No step of a
\* recordTurn call other than its commit -- a failure or crash in
\* particular -- changes the committed tables, a failure leaves nothing of
\* the call behind, and the committed messages of every session are a
\* sequence of (user, assistant) pairs.
C18_AtomicOnFailure ==
    [][/\ (/\ cur.op = "add_turn" \/ cur'.op = "add_turn"
           /\ ~ Returns("add_turn"))
          => UNCHANGED dbvars
       /\ (cur.op = "add_turn" /\ cur' = Idle /\ ~ Returns("add_turn"))
          => /\ wsessions' = sessions
             /\ wmessages' = messages
       /\ \A id \in SessionIds :
             LET rows == SelectSeq(messages', LAMBDA m : m.session_id = id)
             IN  /\ Len(rows) % 2 = 0
                 /\ \A k \in 1..Len(rows) :
                       rows[k].role = IF k % 2 = 1 THEN "user"
                                      ELSE "assistant"]_vars

\* A recordTurn call that has created the session row and stored its user
\* message but has not committed: neither is visible.
C18_Witness ==
    /\ cur.op = "add_turn"
    /\ cur.pc = 4
    /\ cur.id \in DOMAIN wsessions
    /\ cur.id \notin DOMAIN sessions
    /\ Len(wmessages) = Len(messages) + 1
    /\ wmessages[Len(wmessages)].role = "user"

\* C13: the answer pipeline is a strictly sequential state machine.  The
\* stage only ever moves INIT -> RETRIEVED -> DRAFTED -> VERIFIED -> DONE or
\* from a stage before VERIFIED to failure; each stage runs at most once and
\* in that order; a failed run is never resumed and returns nothing; and a
\* run that is DONE has gone through all three stages and returns the
\* verified answer with the retrieved context.
C13_SequentialPipeline ==
    [][/\ pipe'.stage # pipe.stage
          => <<pipe.stage, pipe'.stage>> \in
                {<<"INIT", "RETRIEVED">>, <<"RETRIEVED", "DRAFTED">>,
                 <<"DRAFTED", "VERIFIED">>, <<"VERIFIED", "DONE">>,
                 <<"INIT", "FAILED">>, <<"RETRIEVED", "FAILED">>,
                 <<"DRAFTED", "FAILED">>}
       /\ pipe.stage \in {"FAILED", "DONE"} => pipe' = pipe
       /\ \E n \in 0..3 :
             pipe'.ran = SubSeq(<<"retrieval", "drafting", "verification">>, 1, n)
       /\ pipe'.stage = "FAILED" => pipe'.result = None
       /\ pipe'.stage = "DONE"
          => /\ pipe.stage = "VERIFIED"
             /\ pipe'.ran = <<"retrieval", "drafting", "verification">>
             /\ pipe'.result = Some([answer |-> pipe.final[1],
                                     context |-> pipe.context[1]])]_vars

\* A run on a non-empty history that went through all three stages and
\* returned.
C13_Witness ==
    /\ pipe.stage = "DONE"
    /\ pipe.history # <<>>
    /\ pipe.result # None
    /\ pipe.result[1].answer = pipe.final[1]

\* C19: a pipeline failure records nothing.  When the pipeline raises, the
\* request ends with status 500 and no answer, it has not called add_turn,
\* and the failure itself writes nothing; if no other request has written
\* meanwhile, the messages are as they were when the request arrived, and
\* the sessions too, except for a new session with the sentinel title and
\* an empty history when the request carried no session id.
C19_PipelineFailureRecordsNothing ==
    [][(req.pc = "pipeline" /\ req'.pc = "done")
       => /\ req'.status = 500
          /\ req'.response = None
          /\ \A k \in 1..Len(req'.calls) : req'.calls[k] # "add_turn"
          /\ UNCHANGED dbvars
          /\ req.others = {}
             => /\ messages' = req.messages0
                /\ IF req.payload_id # None
                   THEN sessions' = req.sessions0
                   ELSE /\ req.session_id \notin DOMAIN req.sessions0
                        /\ DOMAIN sessions'
                             = DOMAIN req.sessions0 \cup {req.session_id}
                        /\ \A id \in DOMAIN req.sessions0 :
                              sessions'[id] = req.sessions0[id]
                        /\ sessions'[req.session_id].title = NewChat
                        /\ MessagesOf(messages', req.session_id) = {}]_vars

\* A request without a session id has failed in the pipeline while another
\* session holds a turn: the created session is there, with the sentinel
\* title.
C19_Witness ==
    /\ req.pc = "done"
    /\ req.status = 500
    /\ req.payload_id = None
    /\ req.others = {}
    /\ req.session_id \in DOMAIN sessions
    /\ sessions[req.session_id].title = NewChat
    /\ Len(messages) = 2

\* q is raw without the whitespace at its two ends.
IsStripped(q, raw) ==
    /\ q # <<>>
    /\ q[1] \notin Whitespace
    /\ q[Len(q)] \notin Whitespace
    /\ \E i \in 0..(Len(raw) - Len(q)) :
          /\ SubSeq(raw, i + 1, i + Len(q)) = q
          /\ \A k \in 1..i : raw[k] \in Whitespace
          /\ \A k \in (i + Len(q) + 1)..Len(raw) : raw[k] \in Whitespace

\* The calls a successful request makes, in order.
CallsOfRequest ==
    (IF req.payload_id = None THEN <<"create_session">> ELSE <<>>)
        \o <<"get_history", "pipeline", "add_turn", "get_history">>

\* C20 as stated: request flow order.  A successful request has called
\* (create_session if no id was given,) get_history, the pipeline, add_turn
\* and get_history, in this order; if no other writer touched the session
\* during the request, the returned history is the history fetched before
\* the pipeline ran extended by exactly one Turn, whose question is the
\* request's question and whose answer and context are those of the
\* response.
C20_RequestFlowAsStated ==
    [][(req.pc = "refetch" /\ req'.pc = "done")
       => /\ req'.status = 200
          /\ req'.calls = CallsOfRequest
          /\ req.session_id \notin req.others
             => LET h == req'.response[1].history
                IN  /\ Len(h) = Len(req.history) + 1
                    /\ SubSeq(h, 1, Len(req.history)) = req.history
                    /\ h[Len(h)].question = req.raw
                    /\ h[Len(h)].answer = req'.response[1].answer
                    /\ h[Len(h)].context = req'.response[1].context]_vars

\* C20 as amended: the same, the new Turn's question being the request's
\* question with leading and trailing whitespace removed.
C20_RequestFlow ==
    [][(req.pc = "refetch" /\ req'.pc = "done")
       => /\ req'.status = 200
          /\ req'.calls = CallsOfRequest
          /\ req.session_id \notin req.others
             => LET h == req'.response[1].history
                IN  /\ Len(h) = Len(req.history) + 1
                    /\ SubSeq(h, 1, Len(req.history)) = req.history
                    /\ IsStripped(h[Len(h)].question, req.raw)
                    /\ h[Len(h)].turn = Len(req.history) + 1
                    /\ h[Len(h)].answer = req'.response[1].answer
                    /\ h[Len(h)].context = req'.response[1].context]_vars

\* A request whose question is padded with whitespace has succeeded on a
\* session that already held a turn, undisturbed.
C20_Witness ==
    /\ req.pc = "done"
    /\ req.status = 200
    /\ req.raw # req.question
    /\ req.session_id \notin req.others
    /\ Len(req.history) = 1
    /\ Len(req.response[1].history) = 2

\* C21: re-use of a deleted id starts from scratch.  The first recordTurn
\* on an id whose session a deleteSession or a sweep has removed re-creates
\* the session; getHistory of it is then exactly the one new Turn, with turn
\* index 1, no message stored before the removal is left under the id, and
\* the title is the first 50 characters of the new question.
C21_ReuseStartsFromScratch ==
    [][(/\ Returns("add_turn")
        /\ cur.id \in purged
        /\ cur.id \notin DOMAIN sessions)
       => /\ cur.id \in DOMAIN sessions'
          /\ sessions'[cur.id].title = Truncate(cur.q, TitleLen)
          /\ LET h == get_history_formatted(messages', cur.id)
             IN  /\ Len(h) = 1
                 /\ h[1].turn = 1
                 /\ h[1].question = cur.q
                 /\ h[1].answer = cur.a
                 /\ h[1].context = cur.c
          /\ MessagesOf(messages', cur.id) \cap MessagesOf(messages, cur.id)
                = {}]_vars

====
